---- MODULE Spec2Model ----
(***************************************************************************)
(* Caducee backend API (src/main_api.py): registration, login, the         *)
(* initial symptom analysis, the refinement turn and the consultation      *)
(* store.  Each request handler is one atomic action (the handlers are      *)
(* `async def` bodies without an await, so a request runs to completion).  *)
(* The generative oracle and the database commit are external: the reply   *)
(* text, an oracle failure and a commit failure are inputs of the action.  *)
(***************************************************************************)
EXTENDS Naturals, Sequences, FiniteSets

VARIABLES GOOGLE_API_KEY, users, tokens, consultations, stored_by, last,
          raw_text, extracted

vars == <<GOOGLE_API_KEY, users, tokens, consultations, stored_by, last,
          raw_text, extracted>>

(***************************************************************************)
(* Bounds and input domains.                                               *)
(***************************************************************************)
MaxConsultations == 2

Emails == {"a@x", "b@x"}
RegisterPasswords == {"pw"}
LoginPasswords == {"pw", "bad"}
Symptoms == {"headache", "fever"}
InvalidToken == "invalid"

(***************************************************************************)
(* JSON values.  A string is a sequence of chunks, so that a code-fence     *)
(* marker can occur inside a string.  "absent" stands for a key that the   *)
(* object does not have, "null" for JSON null / Python None, "num" for a   *)
(* JSON number and "list" for a JSON list of strings.                      *)
(***************************************************************************)
Absent == [t |-> "absent", s |-> <<>>]
Null == [t |-> "null", s |-> <<>>]
Num == [t |-> "num", s |-> <<>>]
Str(s) == [t |-> "str", s |-> s]
List(s) == [t |-> "list", s |-> s]

FENCE_JSON == "fence_json"
FENCE == "fence"

RefineKeys == {"next_question", "answer_type", "final_recommendation", "severity_level"}
AnalysisKeys == {"symptom", "differential_diagnoses", "first_question",
                 "answer_type", "recommendations", "disclaimer"}
AllKeys == RefineKeys \cup AnalysisKeys

NoData == [k \in AllKeys |-> Absent]

(***************************************************************************)
(* Reply texts are sequences of tokens.                                    *)
(***************************************************************************)
Tok(t) == [t |-> t, k |-> "", v |-> Absent]
Member(k, v) == [t |-> "member", k |-> k, v |-> v]
WS == Tok("ws")
WORD == Tok("word")
LBRACE == Tok("lbrace")
RBRACE == Tok("rbrace")
COMMA == Tok("comma")
SCALAR == Tok("scalar")
TFENCE_JSON == Tok(FENCE_JSON)
TFENCE == Tok(FENCE)

(***************************************************************************)
(* The extraction pipeline of lines 163 and 178:                           *)
(*   json.loads(response.text.strip().replace(FENCE_JSON, "")              *)
(*                                   .replace(FENCE, ""))                  *)
(***************************************************************************)
RECURSIVE lstrip(_)
lstrip(text) ==
    IF text # <<>> /\ Head(text) = WS THEN lstrip(Tail(text)) ELSE text

RECURSIVE rstrip(_)
rstrip(text) ==
    IF text # <<>> /\ text[Len(text)] = WS
    THEN rstrip(SubSeq(text, 1, Len(text) - 1))
    ELSE text

\* str.strip(): leading and trailing whitespace removed
strip(text) == rstrip(lstrip(text))

\* What one chunk or token becomes when every occurrence of `marker` is
\* deleted: the marker itself vanishes, and deleting the bare fence from
\* the json fence leaves the word "json".
ChunkAfter(c, marker) ==
    IF c = marker THEN <<>>
    ELSE IF c = FENCE_JSON /\ marker = FENCE THEN <<"json">>
    ELSE <<c>>

RECURSIVE ReplaceChunks(_, _)
ReplaceChunks(s, marker) ==
    IF s = <<>> THEN <<>>
    ELSE ChunkAfter(Head(s), marker) \o ReplaceChunks(Tail(s), marker)

TokenAfter(tok, marker) ==
    IF tok.t = marker THEN <<>>
    ELSE IF tok.t = FENCE_JSON /\ marker = FENCE THEN <<WORD>>
    ELSE IF tok.t = "member" /\ tok.v.t \in {"str", "list"}
         THEN <<Member(tok.k, [t |-> tok.v.t, s |-> ReplaceChunks(tok.v.s, marker)])>>
    ELSE <<tok>>

\* str.replace(marker, ""): blind to the JSON structure, so it also edits
\* the inside of string values
RECURSIVE replace(_, _)
replace(text, marker) ==
    IF text = <<>> THEN <<>>
    ELSE TokenAfter(Head(text), marker) \o replace(Tail(text), marker)

NoWS(text) == SelectSeq(text, LAMBDA tok : tok # WS)

MembersOK(inner) ==
    \/ inner = <<>>
    \/ /\ Len(inner) % 2 = 1
       /\ \A i \in 1..Len(inner) :
            IF i % 2 = 1 THEN inner[i].t = "member" ELSE inner[i] = COMMA

SetMax(S) == CHOOSE x \in S : \A y \in S : y <= x

\* the value json.loads binds to key k: the last member with that key
Lookup(inner, k) ==
    LET idx == {i \in 1..Len(inner) : inner[i].t = "member" /\ inner[i].k = k}
    IN  IF idx = {} THEN Absent ELSE inner[SetMax(idx)].v

JSONError == [kind |-> "error", d |-> NoData]

\* json.loads: whitespace between tokens is insignificant, the document is
\* one value, anything else raises JSONDecodeError
json_loads(text) ==
    LET t == NoWS(text)
    IN  IF t = <<SCALAR>> THEN [kind |-> "scalar", d |-> NoData]
        ELSE IF /\ Len(t) >= 2
                /\ t[1] = LBRACE
                /\ t[Len(t)] = RBRACE
                /\ MembersOK(SubSeq(t, 2, Len(t) - 1))
             THEN [kind |-> "dict",
                   d |-> [k \in AllKeys |-> Lookup(SubSeq(t, 2, Len(t) - 1), k)]]
        ELSE JSONError

extract_json(text) ==
    json_loads(replace(replace(strip(text), FENCE_JSON), FENCE))

(***************************************************************************)
(* Oracle replies offered to the handlers.                                 *)
(***************************************************************************)
RECURSIVE Join(_)
Join(members) ==
    IF Len(members) <= 1 THEN members
    ELSE <<Head(members), COMMA, WS>> \o Join(Tail(members))

RECURSIVE MembersOf(_, _)
MembersOf(d, keys) ==
    IF keys = <<>> THEN <<>>
    ELSE (IF d[Head(keys)] = Absent THEN <<>> ELSE <<Member(Head(keys), d[Head(keys)])>>)
         \o MembersOf(d, Tail(keys))

KeyOrder == <<"symptom", "differential_diagnoses", "first_question", "next_question",
              "answer_type", "recommendations", "disclaimer", "severity_level",
              "final_recommendation">>

\* the JSON text of object d
Render(d) == <<LBRACE>> \o Join(MembersOf(d, KeyOrder)) \o <<RBRACE>>

Bare(d) == Render(d)
Fenced(d) == <<TFENCE_JSON, WS>> \o Render(d) \o <<WS, TFENCE>>
ProseBefore(d) == <<WORD, WS>> \o Render(d)
ProseAfter(d) == Render(d) \o <<WS, WORD>>

YES_NO == Str(<<"yes_no">>)

RefineObjects ==
    {[k \in AllKeys |->
        CASE k = "next_question" -> q
          [] k = "answer_type" -> a
          [] k = "final_recommendation" -> f
          [] k = "severity_level" -> v
          [] OTHER -> Absent] :
     q \in {Absent, Str(<<"Q">>), Num},
     a \in {Absent, YES_NO, Null},
     f \in {Absent, Str(<<>>), Str(<<"R">>)},
     v \in {Absent, Null, Str(<<"Urgent">>)}}

AnalysisObjects ==
    {[k \in AllKeys |->
        CASE k = "symptom" -> sy
          [] k = "differential_diagnoses" -> dd
          [] k = "first_question" -> fq
          [] k = "answer_type" -> a
          [] k = "recommendations" -> List(<<"rest">>)
          [] k = "disclaimer" -> Str(<<"D">>)
          [] OTHER -> Absent] :
     sy \in {Absent, Str(<<"S">>)},
     dd \in {Absent, List(<<"migraine">>)},
     fq \in {Absent, Str(<<"Q1">>), Num},
     a \in {YES_NO}}

Object(members) ==
    [k \in AllKeys |-> Lookup(members, k)]

\* Scenario C and Scenario D of the specification, and the six-key analysis
AskObject == Object(<<Member("next_question", Str(<<"Q">>)), Member("answer_type", YES_NO)>>)
FinalObject == Object(<<Member("severity_level", Str(<<"Urgent">>)),
                        Member("final_recommendation", Str(<<"R">>))>>)
BothObject == Object(<<Member("next_question", Str(<<"Q">>)),
                       Member("severity_level", Str(<<"Urgent">>)),
                       Member("final_recommendation", Str(<<"R">>))>>)
BadAnswerTypeObject == Object(<<Member("answer_type", Null),
                                Member("severity_level", Str(<<"Urgent">>)),
                                Member("final_recommendation", Str(<<"R">>))>>)
FullAnalysis == Object(<<Member("symptom", Str(<<"S">>)),
                         Member("differential_diagnoses", List(<<"migraine">>)),
                         Member("first_question", Str(<<"Q1">>)),
                         Member("answer_type", YES_NO),
                         Member("recommendations", List(<<"rest">>)),
                         Member("disclaimer", Str(<<"D">>))>>)

Wrapped(objs) ==
    {Fenced(d) : d \in objs} \cup {ProseBefore(d) : d \in objs}
        \cup {ProseAfter(d) : d \in objs}

NonObjects == {<<WORD, WS, WORD>>, <<SCALAR>>}

\* generate_content either returns a text or raises
OracleRaises == <<Tok("raise")>>

\* outcomes of the oracle call in the single-user turn specification
RefineOutcomes ==
    {Bare(d) : d \in RefineObjects} \cup Wrapped({AskObject, FinalObject})
        \cup NonObjects \cup {OracleRaises}
AnalysisOutcomes ==
    {Bare(d) : d \in AnalysisObjects} \cup Wrapped({FullAnalysis})
        \cup NonObjects \cup {OracleRaises}

\* outcomes of the oracle call in the multi-user session specification
SessionRefineOutcomes ==
    {Bare(AskObject), Fenced(FinalObject), Bare(BothObject), Bare(NoData),
     Bare(BadAnswerTypeObject), <<WORD, WS, WORD>>, OracleRaises}
SessionAnalysisOutcomes ==
    {Fenced(FullAnalysis), ProseBefore(FullAnalysis), OracleRaises}

\* the extraction applied to every reply the oracle can give
Extracted == [r \in RefineOutcomes \cup AnalysisOutcomes |-> extract_json(r)]

\* histories of the refine request: each turn is the set of keys it carries
Histories == {<<{"question", "answer"}>>, <<{"question", "answer"}, {"question"}>>}

(***************************************************************************)
(* Security helpers.                                                       *)
(***************************************************************************)
NoUser == <<>>
get_password_hash(password) == <<"bcrypt", password>>
verify_password(plain_password, hashed_password) ==
    hashed_password = get_password_hash(plain_password)

\* create_access_token: the signed token is identified by its "sub" claim
create_access_token(sub) == sub

\* get_current_user: the token must decode (it is one the server signed)
\* and its subject must still be a stored user
get_current_user(token) ==
    IF token \notin tokens THEN [ok |-> FALSE, email |-> ""]
    ELSE IF users[token] = NoUser THEN [ok |-> FALSE, email |-> ""]
    ELSE [ok |-> TRUE, email |-> token]

(***************************************************************************)
(* Responses.  `last` is the record of the request handled last.           *)
(***************************************************************************)
NoDetail == <<"", "">>
Unauthorized == <<"Could not validate credentials", "">>
KeyNotConfigured == <<"Cle API Google non configuree.", "">>
InternalServerError == <<"Internal Server Error", "">>
\* f"Erreur IA: {e}"
ErreurIA(e) == <<"Erreur IA: ", e>>

Result(op, caller, symptoms, status, detail) ==
    [op |-> op, caller |-> caller, symptoms |-> symptoms, status |-> status,
     detail |-> detail, body |-> NoData, listing |-> <<>>, data |-> NoData,
     oracle_calls |-> 0, commit |-> "none", before |-> Len(consultations)]

(***************************************************************************)
(* Pydantic response models.                                               *)
(***************************************************************************)
OptionalStr(v) == v.t \in {"absent", "null", "str"}
RequiredStr(v) == v.t = "str"
RequiredList(v) == v.t = "list"

\* RefineResponse(**refine_data), line 80
RefineResponseValid(d) ==
    /\ OptionalStr(d["next_question"])
    /\ d["answer_type"].t \in {"absent", "str"}
    /\ OptionalStr(d["final_recommendation"])
    /\ OptionalStr(d["severity_level"])

RefineResponse(d) ==
    [k \in AllKeys |->
        IF k \notin RefineKeys THEN Absent
        ELSE IF d[k] # Absent THEN d[k]
        ELSE IF k = "answer_type" THEN YES_NO
        ELSE Null]

\* AnalysisResponse(**analysis_data), line 78: six required fields
AnalysisResponseValid(d) ==
    /\ RequiredStr(d["symptom"])
    /\ RequiredList(d["differential_diagnoses"])
    /\ RequiredStr(d["first_question"])
    /\ RequiredStr(d["answer_type"])
    /\ RequiredList(d["recommendations"])
    /\ RequiredStr(d["disclaimer"])

AnalysisResponse(d) == [k \in AllKeys |-> IF k \in AnalysisKeys THEN d[k] ELSE Absent]

\* Python truthiness of a JSON value
Truthy(v) ==
    \/ v.t = "num"
    \/ v.t \in {"str", "list"} /\ v.s # <<>>

\* faulty variant: the credential check left out
NotConfigured_unchecked == FALSE

\* line 154 / 169: if not GOOGLE_API_KEY.  The name is a module global that the
\* handlers read; it holds the credential taken from the environment at start.
NotConfigured == ~GOOGLE_API_KEY

\* faulty variant: the test reads the wrong key
ShouldSave_onQuestion(refine_data) == Truthy(refine_data["next_question"])

\* faulty variant: the test asks for the key's presence instead of its truth
ShouldSave_keyPresent(refine_data) == refine_data["final_recommendation"] # Absent

\* line 181: if refine_data.get("final_recommendation")
ShouldSave(refine_data) == Truthy(refine_data["final_recommendation"])

\* line 171: h['question'] and h['answer'] of every turn
HistoryFormats(history) ==
    \A i \in 1..Len(history) : {"question", "answer"} \subseteq history[i]

\* lines 182-187 (created_at, the wall-clock default of line 51, is left out:
\* nothing reads it); the id is the autoincremented primary key
Consultation(symptom, final_recommendation, severity_level, owner_email) ==
    [id |-> Len(consultations) + 1, symptom |-> symptom,
     final_recommendation |-> final_recommendation,
     severity_level |-> severity_level, owner_email |-> owner_email]

\* faulty variant: the where clause left out
OwnedBy_anyone(c, email) == TRUE

\* line 149: where(Consultation.owner_email == current_user.email)
OwnedBy(c, email) == c.owner_email = email

(***************************************************************************)
(* Initial state: empty database, no token issued, the credential either   *)
(* present in the environment or not.                                      *)
(***************************************************************************)
Pending == [kind |-> "pending", d |-> NoData]

Init ==
    /\ GOOGLE_API_KEY \in BOOLEAN
    /\ users = [e \in Emails |-> NoUser]
    /\ tokens = {}
    /\ consultations = <<>>
    /\ stored_by = <<>>
    /\ last = Result("startup", "", "", 200, NoDetail)
    /\ raw_text = <<>>
    /\ extracted = Pending

\* POST /users/register, lines 121-131
create_user(email, password) ==
    /\ IF users[email] # NoUser
       THEN /\ last' = Result("create_user", "", "", 400, <<"Email already registered", "">>)
            /\ UNCHANGED users
       ELSE /\ users' = [users EXCEPT ![email] = get_password_hash(password)]
            /\ last' = Result("create_user", email, "", 201, NoDetail)
    /\ UNCHANGED <<GOOGLE_API_KEY, tokens, consultations, stored_by, raw_text, extracted>>

\* POST /token, lines 113-119
login_for_access_token(username, password) ==
    /\ IF users[username] = NoUser \/ ~verify_password(password, users[username])
       THEN /\ last' = Result("login", "", "", 401, <<"Incorrect email or password", "">>)
            /\ UNCHANGED tokens
       ELSE /\ tokens' = tokens \cup {create_access_token(username)}
            /\ last' = Result("login", username, "", 200, NoDetail)
    /\ UNCHANGED <<GOOGLE_API_KEY, users, consultations, stored_by, raw_text, extracted>>

\* GET /consultations, lines 147-150
read_consultations(token) ==
    LET current_user == get_current_user(token)
    IN  /\ last' =
             IF ~current_user.ok
             THEN Result("read_consultations", "", "", 401, Unauthorized)
             ELSE [Result("read_consultations", current_user.email, "", 200, NoDetail)
                   EXCEPT !.listing =
                       SelectSeq(consultations, LAMBDA c : OwnedBy(c, current_user.email))]
        /\ UNCHANGED <<GOOGLE_API_KEY, users, tokens, consultations, stored_by,
                       raw_text, extracted>>

\* POST /analysis, lines 152-165.  The oracle's outcome is read only when the
\* call is reached: `outcome` is the reply text, or OracleRaises.
analyze_symptoms(token, symptoms, outcomes) ==
    LET current_user == get_current_user(token)
        op == "analyze_symptoms"
        Fail(e, data) ==
            [Result(op, current_user.email, symptoms, 503, ErreurIA(e))
             EXCEPT !.oracle_calls = 1, !.data = data]
    IN  /\ IF ~current_user.ok
           THEN last' = Result(op, "", symptoms, 401, Unauthorized)
           ELSE IF NotConfigured
           THEN last' = Result(op, current_user.email, symptoms, 500, KeyNotConfigured)
           ELSE \E outcome \in outcomes :
                  LET analysis == Extracted[outcome]
                  IN  last' =
                        IF outcome = OracleRaises THEN Fail("OracleError", NoData)
                        ELSE IF analysis.kind = "error" THEN Fail("JSONDecodeError", NoData)
                        ELSE IF analysis.kind = "scalar" THEN Fail("TypeError", NoData)
                        ELSE IF ~AnalysisResponseValid(analysis.d)
                             THEN Fail("ValidationError", analysis.d)
                        ELSE [Result(op, current_user.email, symptoms, 200, NoDetail)
                              EXCEPT !.oracle_calls = 1, !.data = analysis.d,
                                     !.body = AnalysisResponse(analysis.d)]
        /\ UNCHANGED <<GOOGLE_API_KEY, users, tokens, consultations, stored_by,
                       raw_text, extracted>>

\* lines 177-192: the try block of refine_analysis once the oracle has
\* replied with `reply`; commit_ok is whether session.commit() succeeds
refine_try(token, current_user, symptoms, reply, commit_ok) ==
    LET op == "refine_analysis"
        Fail(e, data, commit) ==
            [Result(op, current_user.email, symptoms, 503, ErreurIA(e))
             EXCEPT !.oracle_calls = 1, !.data = data, !.commit = commit]
        refine == Extracted[reply]
        refine_data == refine.d
        saving == /\ refine.kind = "dict"
                  /\ ShouldSave(refine_data)
                  /\ refine_data["severity_level"] # Absent
        committed == saving /\ refine_data["severity_level"] # Null /\ commit_ok
        new_consultation ==
            Consultation(symptoms, refine_data["final_recommendation"],
                         refine_data["severity_level"], current_user.email)
    IN  /\ saving \/ commit_ok
        /\ committed => Len(consultations) < MaxConsultations
        /\ IF committed
           THEN /\ consultations' = Append(consultations, new_consultation)
                /\ stored_by' = Append(stored_by, token)
           ELSE UNCHANGED <<consultations, stored_by>>
        /\ last' =
             IF refine.kind = "error" THEN Fail("JSONDecodeError", NoData, "none")
             ELSE IF refine.kind = "scalar" THEN Fail("AttributeError", NoData, "none")
             ELSE IF ShouldSave(refine_data) /\ refine_data["severity_level"] = Absent
                  THEN Fail("KeyError", refine_data, "none")
             ELSE IF saving /\ refine_data["severity_level"] = Null
                  THEN Fail("IntegrityError", refine_data, "failed")
             ELSE IF saving /\ ~commit_ok
                  THEN Fail("OperationalError", refine_data, "failed")
             ELSE IF ~RefineResponseValid(refine_data)
                  THEN Fail("ValidationError", refine_data,
                            IF committed THEN "ok" ELSE "none")
             ELSE [Result(op, current_user.email, symptoms, 200, NoDetail)
                   EXCEPT !.oracle_calls = 1, !.data = refine_data,
                          !.commit = IF committed THEN "ok" ELSE "none",
                          !.body = RefineResponse(refine_data)]

\* POST /analysis/refine, lines 167-192
refine_analysis(token, symptoms, history, outcomes) ==
    LET current_user == get_current_user(token)
        op == "refine_analysis"
    IN  /\ IF ~current_user.ok
           THEN /\ last' = Result(op, "", symptoms, 401, Unauthorized)
                /\ UNCHANGED <<consultations, stored_by>>
           ELSE IF NotConfigured
           THEN /\ last' = Result(op, current_user.email, symptoms, 500, KeyNotConfigured)
                /\ UNCHANGED <<consultations, stored_by>>
           ELSE IF ~HistoryFormats(history)
           THEN /\ last' = Result(op, current_user.email, symptoms, 500, InternalServerError)
                /\ UNCHANGED <<consultations, stored_by>>
           ELSE \E outcome \in outcomes :
                  IF outcome = OracleRaises
                  THEN /\ last' = [Result(op, current_user.email, symptoms, 503,
                                          ErreurIA("OracleError"))
                                   EXCEPT !.oracle_calls = 1]
                       /\ UNCHANGED <<consultations, stored_by>>
                  ELSE \E commit_ok \in BOOLEAN :
                          refine_try(token, current_user, symptoms, outcome, commit_ok)
        /\ UNCHANGED <<GOOGLE_API_KEY, users, tokens, raw_text, extracted>>

Presentable == tokens \cup {InvalidToken}

\* Sessions of several users, with the oracle's typical replies
Next ==
    \/ \E e \in Emails, p \in RegisterPasswords : create_user(e, p)
    \/ \E e \in Emails, p \in LoginPasswords : login_for_access_token(e, p)
    \/ \E t \in Presentable : read_consultations(t)
    \/ \E t \in Presentable, s \in Symptoms :
          analyze_symptoms(t, s, SessionAnalysisOutcomes)
    \/ \E t \in Presentable, s \in Symptoms, h \in Histories :
          refine_analysis(t, s, h, SessionRefineOutcomes)

Spec == Init /\ [][Next]_vars

\* The turns of one user, with every reply of the oracle's domain
OneUser == {"a@x"}

NextTurn ==
    \/ \E e \in OneUser, p \in RegisterPasswords : create_user(e, p)
    \/ \E e \in OneUser, p \in LoginPasswords : login_for_access_token(e, p)
    \/ \E t \in Presentable, s \in Symptoms :
          analyze_symptoms(t, s, AnalysisOutcomes)
    \/ \E t \in Presentable, s \in Symptoms, h \in Histories :
          refine_analysis(t, s, h, RefineOutcomes)

SpecTurn == Init /\ [][NextTurn]_vars

(***************************************************************************)
(* The extraction on its own: a reply text is drawn, then extracted.       *)
(***************************************************************************)
FenceInString ==
    Object(<<Member("severity_level", Str(<<"Urgent">>)),
             Member("final_recommendation", Str(<<"R", FENCE, "x">>))>>)

ExtractObjects == {AskObject, FinalObject, BothObject, FullAnalysis, NoData, FenceInString}
Prefixes == {<<>>, <<WS>>, <<TFENCE_JSON, WS>>, <<TFENCE, WS>>, <<WORD, WS>>,
             <<WORD, WS, TFENCE_JSON, WS>>}
Suffixes == {<<>>, <<WS>>, <<WS, TFENCE>>, <<WS, WORD>>, <<WS, TFENCE, WS, WORD>>}

ExtractTexts ==
    {pre \o Render(d) \o suf : pre \in Prefixes, d \in ExtractObjects, suf \in Suffixes}
        \cup NonObjects

InitExtract ==
    /\ GOOGLE_API_KEY = TRUE
    /\ users = [e \in Emails |-> NoUser]
    /\ tokens = {}
    /\ consultations = <<>>
    /\ stored_by = <<>>
    /\ last = Result("startup", "", "", 200, NoDetail)
    /\ raw_text \in ExtractTexts
    /\ extracted = Pending

Extract ==
    /\ extracted = Pending
    /\ extracted' = extract_json(raw_text)
    /\ UNCHANGED <<GOOGLE_API_KEY, users, tokens, consultations, stored_by, last, raw_text>>

SpecExtract == InitExtract /\ [][Extract]_vars

(***************************************************************************)
(* Properties.                                                             *)
(***************************************************************************)
\* a field of a decision is populated when it is a non-empty text
Populated(v) == v.t = "str" /\ v.s # <<>>

RefineReturned == last.op = "refine_analysis" /\ last.status = 200
RefineFailed == last.op = "refine_analysis" /\ last.status # 200

\* the two shapes of a decision, read off an object
AskShape(d) ==
    Populated(d["next_question"]) /\ ~Populated(d["final_recommendation"])
FinalShape(d) ==
    /\ Populated(d["final_recommendation"])
    /\ Populated(d["severity_level"])
    /\ ~Populated(d["next_question"])

\* C1: a refinement call never returns a decision with both next_question and
\* final_recommendation populated, nor with neither; an oracle object of
\* both shapes or of neither ends the call in an error.
C1_ExclusiveDecision ==
    /\ RefineReturned =>
          (Populated(last.body["next_question"])
              # Populated(last.body["final_recommendation"]))
    /\ (last.op = "refine_analysis" /\ last.oracle_calls = 1
          /\ (Populated(last.data["next_question"])
                = Populated(last.data["final_recommendation"])))
          => last.status # 200

\* C2: whenever a refinement call returns a final recommendation, that call
\* has appended exactly one consultation, holding the request's symptom text,
\* the oracle's recommendation and severity, and the authenticated caller.
C2_FinalIsStored ==
    (RefineReturned /\ Populated(last.body["final_recommendation"])) =>
        /\ Len(consultations) = last.before + 1
        /\ LET c == consultations[Len(consultations)]
           IN  /\ c.symptom = last.symptoms
               /\ c.final_recommendation = last.data["final_recommendation"]
               /\ c.severity_level = last.data["severity_level"]
               /\ c.owner_email = stored_by[Len(consultations)]
               /\ c.owner_email = last.caller

C2_Witness ==
    /\ RefineReturned
    /\ FinalShape(last.body)
    /\ Len(consultations) = last.before + 1

\* C3: a refinement call that returns a question, and every initial-analysis
\* call, leaves the stored consultations unchanged.
C3_AskLeavesStore ==
    [][((last'.op = "refine_analysis" /\ last'.status = 200 /\ AskShape(last'.body))
          \/ last'.op = "analyze_symptoms")
        => consultations' = consultations]_vars

C3_Witness ==
    /\ RefineReturned
    /\ AskShape(last.body)
    /\ last.body["answer_type"] = YES_NO
    /\ Len(consultations) = last.before
    /\ Len(consultations) > 0

\* C4: when the oracle object is a valid final recommendation and the commit
\* fails, the call still returns that decision.
C4_StorageFailureKeepsDecision ==
    (last.op = "refine_analysis" /\ last.commit = "failed"
        /\ FinalShape(last.data) /\ RefineResponseValid(last.data))
    => (last.status = 200 /\ last.body = RefineResponse(last.data))

\* C5: without an oracle credential the analysis and the refinement fail with
\* the configuration error, the oracle is never called and nothing is stored.
C5_NoKeyNoCall ==
    ~GOOGLE_API_KEY =>
        /\ consultations = <<>>
        /\ last.op \in {"analyze_symptoms", "refine_analysis"} =>
              /\ last.oracle_calls = 0
              /\ last.status # 200
              /\ last.caller # "" => (last.status = 500 /\ last.detail = KeyNotConfigured)

C5_Witness ==
    /\ ~GOOGLE_API_KEY
    /\ last.op = "refine_analysis"
    /\ last.caller # ""
    /\ last.status = 500

\* C6: an initial-analysis reply that lacks only first_question is answered
\* with the fallback question instead of a failure.
FallbackQuestion == Str(<<"Do you have any other symptoms?">>)

C6_FallbackQuestion ==
    (last.op = "analyze_symptoms" /\ last.oracle_calls = 1
        /\ last.data # NoData
        /\ last.data["first_question"] = Absent
        /\ AnalysisResponseValid([last.data EXCEPT !["first_question"] = FallbackQuestion]))
    => (last.status = 200 /\ last.body["first_question"] = FallbackQuestion)

\* C7: two failures of the oracle path give the caller the same response,
\* whatever their causes.
C7_GenericFailure ==
    [][(last.status = 503 /\ last'.status = 503) => last'.detail = last.detail]_vars

\* C8: a reply that holds one well-formed JSON object between arbitrary
\* leading and trailing commentary extracts to exactly that object.
C8_ExtractionIgnoresCommentary ==
    \A pre \in Prefixes, suf \in Suffixes, d \in ExtractObjects :
        (raw_text = pre \o Render(d) \o suf /\ extracted # Pending)
            => extracted = [kind |-> "dict", d |-> d]

\* C9: a refinement call that ends in a failure response has stored nothing.
C9_FailureStoresNothing ==
    RefineFailed => Len(consultations) = last.before

\* C10: the listing of an authenticated user is exactly the consultations
\* stored by the refinement calls made under that user's token.
RECURSIVE StoredUnder(_, _)
StoredUnder(token, n) ==
    IF n = 0 THEN <<>>
    ELSE StoredUnder(token, n - 1)
            \o (IF stored_by[n] = token THEN <<consultations[n]>> ELSE <<>>)

C10_ListingIsOwn ==
    (last.op = "read_consultations" /\ last.status = 200) =>
        last.listing = StoredUnder(last.caller, Len(consultations))

C10_Witness ==
    /\ last.op = "read_consultations"
    /\ last.status = 200
    /\ Len(last.listing) = 1
    /\ Len(consultations) = 2

====
